---- MODULE Spec2Model ----
(***************************************************************************)
(* Task-graph execution engine of the marketing agent                      *)
(* (02-use-cases/08-marketing-agent/main.py, Application.execute_plan_     *)
(* direct and its helpers).  One behaviour is one call of                  *)
(* execute_plan_direct on a plan drawn from Plans.                         *)
(*                                                                         *)
(* Strings the code converts or searches (task ids, evaluator texts) are   *)
(* sequences of one-character strings; strings the code only passes        *)
(* around (agent names, descriptions) are TLA+ strings.                    *)
(***************************************************************************)
EXTENDS Naturals, Sequences, FiniteSets, TLC

VARIABLES
    tasks,              \* the plan handed to execute_plan_direct (read-only)
    pc,                 \* position of the controlling thread
    retry_count,        \* loop variable of the retry loop
    completed_tasks,    \* dict task_id -> "COMPLETED" | "FAILED"
    task_results,       \* dict task_id -> result text
    remaining_tasks,    \* list of task dicts
    execution_order,    \* list of task dicts
    ready_tasks,        \* list of task dicts of the current round
    futures,            \* one record per _execute_single_task call of the round
    max_workers,        \* size of the thread pool of the round
    finished_snapshot,  \* as_completed: futures already finished when it was called
    done_order,         \* as_completed's waiter: futures that ended since, in order
    reflection_prompt,  \* results_summary built by _run_reflection
    evaluator_calls,    \* number of calls of the evaluator
    verdicts,           \* texts the evaluator returned, one per call that returned
    summary_table,      \* rows of the final summary
    outcome,            \* how execute_plan_direct ended
    starts,             \* task dict -> number of _execute_single_task calls started
    early_order,        \* futures that ended before as_completed was entered, in order
    gate,               \* what the reflection gate printed last
    return_value,       \* what execute_plan_direct returned
    run                 \* the frame of Application.run: position, input, plan

vars == <<tasks, pc, retry_count, completed_tasks, task_results, remaining_tasks,
          execution_order, ready_tasks, futures, max_workers, finished_snapshot,
          done_order, reflection_prompt, evaluator_calls, verdicts,
          summary_table, outcome, starts, early_order, gate, return_value,
          run>>

\* the local variables of one call of execute_plan_direct
engine_vars ==
    <<tasks, pc, retry_count, completed_tasks, task_results, remaining_tasks,
      execution_order, ready_tasks, futures, max_workers, finished_snapshot,
      done_order, reflection_prompt, evaluator_calls, verdicts,
      summary_table, outcome, starts, early_order, gate, return_value>>

---------------------------------------------------------------------------
(* Bounds of the model *)

\* widest plan of independent tasks in Plans
MaxFan == 4

(* Program constants *)

\* max_retries = 2
max_retries == 2

\* ThreadPoolExecutor(max_workers=min(len(ready_tasks), 3))
PoolCap == 3

UserQuery == "user query"

\* most requests one behaviour of Application.run reads
MaxRequests == 2

---------------------------------------------------------------------------
(* Sequences, dicts and strings *)

Range(s) == {s[i] : i \in DOMAIN s}

\* min that returns its first argument
MinFirst(a, b) == a

\* min(a, b)
Min(a, b) == IF a <= b THEN a ELSE b

EmptyDict == <<>>

\* DictSet that stores nothing
DictSetLost(d, k, v) == d

\* d[k] = v of a Python dict
DictSet(d, k, v) == [x \in (DOMAIN d) \cup {k} |-> IF x = k THEN v ELSE d[x]]

\* d.get(k, default)
DictGet(d, k, default) == IF k \in DOMAIN d THEN d[k] ELSE default

\* index of the first element of s equal to x, 0 when there is none
FirstIndex(s, x) ==
    IF \E i \in DOMAIN s : s[i] = x
    THEN CHOOSE i \in DOMAIN s : s[i] = x /\ \A j \in 1..(i - 1) : s[j] # x
    ELSE 0

\* list.remove that removes nothing
ListRemoveNothing(s, x) == s

\* list.remove(x): the list without its first element equal to x
ListRemove(s, x) ==
    LET i == FirstIndex(s, x)
    IN  [j \in 1..(Len(s) - 1) |-> IF j < i THEN s[j] ELSE s[j + 1]]

LowerCase == <<"a","b","c","d","e","f","g","h","i","j","k","l","m",
               "n","o","p","q","r","s","t","u","v","w","x","y","z">>
UpperCase == <<"A","B","C","D","E","F","G","H","I","J","K","L","M",
               "N","O","P","Q","R","S","T","U","V","W","X","Y","Z">>

UpperChar(c) ==
    IF \E i \in DOMAIN LowerCase : LowerCase[i] = c
    THEN UpperCase[CHOOSE i \in DOMAIN LowerCase : LowerCase[i] = c]
    ELSE c

LowerChar(c) ==
    IF \E i \in DOMAIN UpperCase : UpperCase[i] = c
    THEN LowerCase[CHOOSE i \in DOMAIN UpperCase : UpperCase[i] = c]
    ELSE c

\* str.lower()
Lower(s) == [i \in DOMAIN s |-> LowerChar(s[i])]

RECURSIVE StripLeft(_)
StripLeft(s) ==
    IF Len(s) > 0 /\ Head(s) = " " THEN StripLeft(Tail(s)) ELSE s

RECURSIVE StripRight(_)
StripRight(s) ==
    IF Len(s) > 0 /\ s[Len(s)] = " "
    THEN StripRight(SubSeq(s, 1, Len(s) - 1)) ELSE s

\* str.strip()
Strip(s) == StripRight(StripLeft(s))

\* str.upper()
Upper(s) == [i \in DOMAIN s |-> UpperChar(s[i])]

\* sub in s, for strings
Contains(sub, s) ==
    \E i \in 0..(Len(s) - Len(sub)) :
        \A j \in 1..Len(sub) : s[i + j] = sub[j]

PROCEED == <<"P","R","O","C","E","E","D">>
RETRY == <<"R","E","T","R","Y">>

---------------------------------------------------------------------------
(* Plans: the inputs of execute_plan_direct *)

Task(id, agent, description, deps) ==
    [task_id |-> id, agent |-> agent, description |-> description,
     dependencies |-> deps]

Digits == <<"1","2","3","4","5","6","7","8","9">>

\* A and B independent, C depends on both; two quality-bearing tasks
PlanDiamond ==
    << Task(<<"a">>, "researcher_agent", "research", <<>>),
       Task(<<"b">>, "python_agent", "analyse", <<>>),
       Task(<<"c">>, "report_agent", "report", << <<"a">>, <<"b">> >>) >>

\* B depends on A; one quality-bearing task
PlanChain ==
    << Task(<<"a">>, "researcher_agent", "research", <<>>),
       Task(<<"b">>, "report_agent", "report", << <<"a">> >>) >>

\* A and B depend on each other, C is independent
PlanCycle ==
    << Task(<<"a">>, "researcher_agent", "research", << <<"b">> >>),
       Task(<<"b">>, "python_agent", "analyse", << <<"a">> >>),
       Task(<<"c">>, "report_agent", "report", <<>>) >>

\* A depends on itself
PlanSelf ==
    << Task(<<"a">>, "researcher_agent", "research", << <<"a">> >>) >>

\* B depends on an id that is not in the batch
PlanDangling ==
    << Task(<<"a">>, "researcher_agent", "research", <<>>),
       Task(<<"b">>, "report_agent", "report", << <<"z">> >>) >>

\* A names an agent that Config.agent_configs does not hold; A runs in a pool
PlanUnknownParallel ==
    << Task(<<"a">>, "mystery_agent", "guess", <<>>),
       Task(<<"b">>, "report_agent", "report", << <<"a">> >>),
       Task(<<"c">>, "report_agent", "other", <<>>) >>

\* the same, A runs in the single-task branch
PlanUnknownSingle ==
    << Task(<<"a">>, "mystery_agent", "guess", <<>>),
       Task(<<"b">>, "report_agent", "report", << <<"a">> >>) >>

\* B and C both depend on A and run in one pool
PlanFork ==
    << Task(<<"a">>, "researcher_agent", "research", <<>>),
       Task(<<"b">>, "report_agent", "report", << <<"a">> >>),
       Task(<<"c">>, "report_agent", "other", << <<"a">> >>) >>

\* B depends on A, C depends on A and B
PlanLadder ==
    << Task(<<"a">>, "researcher_agent", "research", <<>>),
       Task(<<"b">>, "report_agent", "report", << <<"a">> >>),
       Task(<<"c">>, "report_agent", "other", << <<"a">>, <<"b">> >>) >>

\* n independent tasks
PlanFan(n) ==
    [i \in 1..n |-> Task(<<"t", Digits[i]>>, "report_agent", "part", <<>>)]

Plans ==
    {PlanDiamond, PlanChain, PlanCycle, PlanSelf, PlanDangling,
     PlanUnknownParallel, PlanUnknownSingle, PlanFork, PlanLadder}
    \cup {PlanFan(n) : n \in 1..MaxFan}

\* Config.agent_configs
agent_configs ==
    {"researcher_agent", "text2sql_agent", "python_agent", "report_agent",
     "reflection_agent"}

\* a request typed at the prompt
Request == <<"p","l","a","n"," ","i","t">>

\* ["quit", "exit", "bye"]
QuitWords ==
    { <<"q","u","i","t">>, <<"e","x","i","t">>, <<"b","y","e">> }

\* what the user may type at the prompt
Inputs ==
    QuitWords \cup { <<"Q","u","i","t">>, <<>>, <<" ">>, Request }

\* what memory_config.retrieve_memories may return
Memories == { <<>>, <<"a memory">> }

\* what run_planner may return: None, an empty list or a task list
PlannerResults ==
    { [kind |-> "None", tasks |-> <<>>],
      [kind |-> "tasks", tasks |-> <<>>],
      [kind |-> "tasks", tasks |-> PlanChain],
      [kind |-> "tasks", tasks |-> PlanDiamond],
      [kind |-> "tasks", tasks |-> PlanDangling] }

\* texts the evaluator may return
EvaluatorTexts ==
    { PROCEED,
      RETRY,
      <<"p","r","o","c","e","e","d">>,
      <<"R","e","t","r","y">>,
      <<"o","k">>,
      RETRY \o <<" ">> \o PROCEED,
      <<"p","r","o","c","e","e","d">> \o <<" ">> \o RETRY }

---------------------------------------------------------------------------
(* State after lines 195-197 of execute_plan_direct *)

Init ==
    /\ tasks \in Plans
    /\ pc = "for_head"
    /\ retry_count = 0
    /\ completed_tasks = EmptyDict
    /\ task_results = EmptyDict
    /\ remaining_tasks = <<>>
    /\ execution_order = <<>>
    /\ ready_tasks = <<>>
    /\ futures = <<>>
    /\ max_workers = 0
    /\ finished_snapshot = {}
    /\ done_order = <<>>
    /\ reflection_prompt = <<>>
    /\ evaluator_calls = 0
    /\ verdicts = <<>>
    /\ summary_table = <<>>
    /\ outcome = "running"
    /\ starts = [t \in Range(tasks) |-> 0]
    /\ early_order = <<>>
    /\ gate = "none"
    /\ return_value = "not returned"
    /\ run = [pc |-> "execute", requests |-> 1, user_query |-> Request,
              planned_tasks |-> [kind |-> "tasks", tasks |-> tasks],
              event |-> "plan_generated"]

---------------------------------------------------------------------------
(* Texts: results, exceptions, prompts *)

Text(kind, of, attempt, detail) ==
    [kind |-> kind, of |-> of, attempt |-> attempt, detail |-> detail]

NoText == Text("none", <<>>, 0, "")

\* str(result) of an agent call that returned
AgentResult(task, attempt) == Text("result", task.task_id, attempt, "")

\* the exception of an agent call that raised
AgentException(task, attempt) == Text("exception", task.task_id, attempt, "agent raised")

\* Exception(f"Unknown agent: '{agent_name}'")
UnknownAgentException(task, attempt) ==
    Text("exception", task.task_id, attempt, "Unknown agent")

\* f"Error: {e}"
ErrorText(e) == Text("error", e.of, e.attempt, e.detail)

Segment(kind, id, agent, description, results) ==
    [kind |-> kind, id |-> id, agent |-> agent, description |-> description,
     results |-> results]

\* the f-string literals that main.py concatenates before .join is applied
Separator == Segment("context_header", <<>>, "", "", NoText)

\* sep.join(parts)
RECURSIVE Join(_, _)
Join(sep, parts) ==
    IF Len(parts) = 0 THEN <<>>
    ELSE IF Len(parts) = 1 THEN <<parts[1]>>
    ELSE <<parts[1], sep>> \o Join(sep, Tail(parts))

\* next((t for t in all_tasks if t["task_id"] == dep_id), None); 0 for None
DepTaskInfo(all_tasks, dep_id) ==
    IF \E i \in DOMAIN all_tasks : all_tasks[i].task_id = dep_id
    THEN CHOOSE i \in DOMAIN all_tasks :
            /\ all_tasks[i].task_id = dep_id
            /\ \A j \in 1..(i - 1) : all_tasks[j].task_id # dep_id
    ELSE 0

\* ContextStep that puts the newest block first
ContextStepPrepend(context_parts, dep_id, results, all_tasks) ==
    IF dep_id \in DOMAIN results
    THEN LET i == DepTaskInfo(all_tasks, dep_id)
         IN  IF i # 0
             THEN << Segment("block", Upper(dep_id), all_tasks[i].agent,
                             all_tasks[i].description, results[dep_id]) >>
                  \o context_parts
             ELSE << Segment("plain", dep_id, "", "", results[dep_id]) >>
                  \o context_parts
    ELSE context_parts

\* one iteration of the loop over task["dependencies"] (lines 396-412)
ContextStep(context_parts, dep_id, results, all_tasks) ==
    IF dep_id \in DOMAIN results
    THEN LET i == DepTaskInfo(all_tasks, dep_id)
         IN  IF i # 0
             THEN Append(context_parts,
                         Segment("block", Upper(dep_id), all_tasks[i].agent,
                                 all_tasks[i].description, results[dep_id]))
             ELSE Append(context_parts,
                         Segment("plain", dep_id, "", "", results[dep_id]))
    ELSE context_parts

\* task_prompt (lines 415-426)
TaskPrompt(task, context_parts) ==
    IF Len(context_parts) > 0
    THEN Join(Separator, context_parts)
         \o << Segment("current_task", <<>>, "", task.description, NoText),
               Segment("important", <<>>, "", "", NoText) >>
    ELSE << Segment("description", <<>>, "", task.description, NoText) >>

\* FullPrompt that puts the user's request before every prompt
FullPromptAlwaysPrefixed(task, context_parts) ==
    << Segment("original_request", <<>>, "", UserQuery, NoText) >>
    \o TaskPrompt(task, context_parts)

\* the prompt handed to the agent (lines 429-434)
FullPrompt(task, context_parts) ==
    IF task.agent = "report_agent"
    THEN << Segment("original_request", <<>>, "", UserQuery, NoText) >>
         \o TaskPrompt(task, context_parts)
    ELSE TaskPrompt(task, context_parts)

---------------------------------------------------------------------------
(* The controlling thread: retry loop and ready sets *)

Future(task, state) ==
    [task |-> task, state |-> state, k |-> 1, context_parts |-> <<>>,
     prompt |-> <<>>, value |-> NoText]

\* ReadyTasks that forgets the dependency test
ReadyTasksIgnoringDeps(remaining, completed) == remaining

\* ReadyTasks that asks for dependencies that succeeded
ReadyTasksOnlyAfterSuccess(remaining, completed) ==
    SelectSeq(remaining,
              LAMBDA task : \A dep \in Range(task.dependencies) :
                                /\ dep \in DOMAIN completed
                                /\ completed[dep] = "COMPLETED")

\* ReadyTasks that stops at the first ready task
ReadyTasksFirstOnly(remaining, completed) ==
    LET ready == SelectSeq(remaining,
                     LAMBDA task : \A dep \in Range(task.dependencies) :
                                       dep \in DOMAIN completed)
    IN  IF Len(ready) = 0 THEN ready ELSE <<ready[1]>>

\* ReadyTasks that is satisfied with one finished dependency
ReadyTasksAnyDependency(remaining, completed) ==
    SelectSeq(remaining,
              LAMBDA task : \/ Len(task.dependencies) = 0
                            \/ \E dep \in Range(task.dependencies) :
                                   dep \in DOMAIN completed)

\* lines 221-225: the tasks of remaining whose dependencies are all keys of completed
ReadyTasks(remaining, completed) ==
    SelectSeq(remaining,
              LAMBDA task : \A dep \in Range(task.dependencies) :
                                dep \in DOMAIN completed)

\* ForHead that keeps the maps of the previous attempt
ForHeadNoReset ==
    /\ pc = "for_head"
    /\ remaining_tasks' = tasks
    /\ execution_order' = <<>>
    /\ pc' = "while_head"
    /\ UNCHANGED <<tasks, retry_count, completed_tasks, task_results,
                   ready_tasks, futures, max_workers, finished_snapshot,
                   done_order, reflection_prompt, evaluator_calls, verdicts,
                   summary_table, outcome, starts, early_order, gate,
                   return_value, run>>

\* ForHead that runs again only the tasks that were not COMPLETED
ForHeadOnlyFailed ==
    /\ pc = "for_head"
    /\ completed_tasks' = IF retry_count > 0 THEN EmptyDict ELSE completed_tasks
    /\ task_results' = IF retry_count > 0 THEN EmptyDict ELSE task_results
    /\ remaining_tasks' =
           SelectSeq(tasks, LAMBDA task :
               DictGet(completed_tasks, task.task_id, "UNKNOWN") # "COMPLETED")
    /\ execution_order' = <<>>
    /\ pc' = "while_head"
    /\ UNCHANGED <<tasks, retry_count, ready_tasks, futures, max_workers,
                   finished_snapshot, done_order, reflection_prompt,
                   evaluator_calls, verdicts, summary_table, outcome, starts,
                   early_order, gate, return_value, run>>

\* lines 199-217: start of one iteration of the retry loop
ForHead ==
    /\ pc = "for_head"
    /\ completed_tasks' = IF retry_count > 0 THEN EmptyDict ELSE completed_tasks
    /\ task_results' = IF retry_count > 0 THEN EmptyDict ELSE task_results
    /\ remaining_tasks' = tasks
    /\ execution_order' = <<>>
    /\ pc' = "while_head"
    /\ UNCHANGED <<tasks, retry_count, ready_tasks, futures, max_workers,
                   finished_snapshot, done_order, reflection_prompt,
                   evaluator_calls, verdicts, summary_table, outcome, starts,
                   early_order, gate, return_value, run>>

\* StructuralFailure that leaves the loop instead of returning
StructuralFailureAsBreak ==
    /\ pc = "while_head"
    /\ Len(remaining_tasks) > 0
    /\ Len(ReadyTasks(remaining_tasks, completed_tasks)) = 0
    /\ ready_tasks' = <<>>
    /\ futures' = <<>>
    /\ pc' = "summary"
    /\ UNCHANGED <<tasks, retry_count, completed_tasks, task_results,
                   remaining_tasks, execution_order, max_workers,
                   finished_snapshot, done_order, reflection_prompt,
                   evaluator_calls, verdicts, summary_table, outcome, starts,
                   early_order, gate, return_value, run>>

\* StructuralFailure that goes on to the next attempt while attempts remain
StructuralFailureRetries ==
    /\ pc = "while_head"
    /\ Len(remaining_tasks) > 0
    /\ Len(ReadyTasks(remaining_tasks, completed_tasks)) = 0
    /\ ready_tasks' = <<>>
    /\ futures' = <<>>
    /\ outcome' = "structural_failure"
    /\ IF retry_count < max_retries
       THEN /\ retry_count' = retry_count + 1
            /\ pc' = "for_head"
            /\ return_value' = return_value
       ELSE /\ retry_count' = retry_count
            /\ pc' = "returned"
            /\ return_value' = "None"
    /\ UNCHANGED <<tasks, completed_tasks, task_results,
                   remaining_tasks, execution_order, max_workers,
                   finished_snapshot, done_order, reflection_prompt,
                   evaluator_calls, verdicts, summary_table, starts,
                   early_order, gate, run>>

\* StructuralFailure that gives up as soon as some remaining task is not ready
StructuralFailureEager ==
    /\ pc = "while_head"
    /\ Len(remaining_tasks) > 0
    /\ Len(ReadyTasks(remaining_tasks, completed_tasks)) < Len(remaining_tasks)
    /\ ready_tasks' = <<>>
    /\ futures' = <<>>
    /\ outcome' = "structural_failure"
    /\ pc' = "returned"
    /\ return_value' = "None"
    /\ UNCHANGED <<tasks, retry_count, completed_tasks, task_results,
                   remaining_tasks, execution_order, max_workers,
                   finished_snapshot, done_order, reflection_prompt,
                   evaluator_calls, verdicts, summary_table, starts,
                   early_order, gate, run>>

\* lines 219-231: no ready task while tasks remain
StructuralFailure ==
    /\ pc = "while_head"
    /\ Len(remaining_tasks) > 0
    /\ Len(ReadyTasks(remaining_tasks, completed_tasks)) = 0
    /\ ready_tasks' = <<>>
    /\ futures' = <<>>
    /\ outcome' = "structural_failure"
    /\ pc' = "returned"
    /\ return_value' = "None"
    /\ UNCHANGED <<tasks, retry_count, completed_tasks, task_results,
                   remaining_tasks, execution_order, max_workers,
                   finished_snapshot, done_order, reflection_prompt,
                   evaluator_calls, verdicts, summary_table, starts,
                   early_order, gate, run>>

\* lines 219-243: several ready tasks, a pool is created
OpenPool ==
    /\ pc = "while_head"
    /\ Len(remaining_tasks) > 0
    /\ LET ready == ReadyTasks(remaining_tasks, completed_tasks)
       IN  /\ Len(ready) > 1
           /\ ready_tasks' = ready
           /\ max_workers' = Min(Len(ready), PoolCap)
           /\ futures' = [i \in 1..Len(ready) |-> Future(ready[i], "unsubmitted")]
    /\ finished_snapshot' = {}
    /\ done_order' = <<>>
    /\ pc' = "submit"
    /\ early_order' = <<>>
    /\ UNCHANGED <<tasks, retry_count, completed_tasks, task_results,
                   remaining_tasks, execution_order, reflection_prompt,
                   evaluator_calls, verdicts, summary_table, outcome, starts,
                   gate, return_value, run>>

\* lines 245-253: executor.submit of the next ready task
Submit ==
    /\ pc = "submit"
    /\ \E i \in DOMAIN futures :
        /\ futures[i].state = "unsubmitted"
        /\ \A j \in 1..(i - 1) : futures[j].state # "unsubmitted"
        /\ futures' = [futures EXCEPT ![i].state = "queued"]
        /\ pc' = IF i = Len(futures) THEN "as_completed" ELSE "submit"
    /\ UNCHANGED <<tasks, retry_count, completed_tasks, task_results,
                   remaining_tasks, execution_order, ready_tasks, max_workers,
                   finished_snapshot, done_order, reflection_prompt,
                   evaluator_calls, verdicts, summary_table, outcome, starts,
                   early_order, gate, return_value, run>>

\* line 255: as_completed is entered; the futures that already ended are
\* yielded first, in no particular order
AsCompleted ==
    /\ pc = "as_completed"
    /\ finished_snapshot' =
           {i \in DOMAIN futures : futures[i].state \in {"returned", "raised"}}
    /\ pc' = "collect"
    /\ UNCHANGED <<tasks, retry_count, completed_tasks, task_results,
                   remaining_tasks, execution_order, ready_tasks, futures,
                   max_workers, done_order, reflection_prompt,
                   evaluator_calls, verdicts, summary_table, outcome, starts,
                   early_order, gate, return_value, run>>

---------------------------------------------------------------------------
(* _execute_single_task, run by a pool thread or by the controlling thread *)

InFlight == {i \in DOMAIN futures : futures[i].state \in {"context", "agent"}}

\* a future that ends tells the waiter that as_completed installed, if any
Notify(i) == IF pc = "collect" THEN Append(done_order, i) ELSE done_order

\* the futures that end before as_completed is entered, in the order they end
NotifyEarly(i) ==
    IF pc \in {"submit", "as_completed"} THEN Append(early_order, i)
    ELSE early_order

\* lines 362-364 and the entry into the context loop
StartCall(i) ==
    LET task == futures[i].task
    IN  /\ starts' = [starts EXCEPT ![task] = @ + 1]
        /\ IF task.agent \notin agent_configs
           THEN /\ futures' = [futures EXCEPT
                        ![i].state = "raised",
                        ![i].value = UnknownAgentException(task, retry_count)]
                /\ done_order' = Notify(i)
                /\ early_order' = NotifyEarly(i)
           ELSE /\ futures' = [futures EXCEPT
                        ![i].state =
                            IF Len(task.dependencies) = 0 THEN "agent" ELSE "context",
                        ![i].prompt =
                            IF Len(task.dependencies) = 0
                            THEN FullPrompt(task, <<>>) ELSE <<>>]
                /\ UNCHANGED <<done_order, early_order>>

\* a pool thread takes the oldest queued call; the pool has max_workers threads
PoolStart ==
    /\ pc \in {"submit", "as_completed", "collect"}
    /\ Cardinality(InFlight) < max_workers
    /\ \E i \in DOMAIN futures :
        /\ futures[i].state = "queued"
        /\ \A j \in 1..(i - 1) : futures[j].state # "queued"
        /\ StartCall(i)
    /\ UNCHANGED <<tasks, pc, retry_count, completed_tasks, task_results,
                   remaining_tasks, execution_order, ready_tasks, max_workers,
                   finished_snapshot, reflection_prompt, evaluator_calls,
                   verdicts, summary_table, outcome, gate, return_value, run>>

\* line 281: the controlling thread makes the call itself
SingleStart ==
    /\ pc = "single"
    /\ futures[1].state = "queued"
    /\ StartCall(1)
    /\ UNCHANGED <<tasks, pc, retry_count, completed_tasks, task_results,
                   remaining_tasks, execution_order, ready_tasks, max_workers,
                   finished_snapshot, reflection_prompt, evaluator_calls,
                   verdicts, summary_table, outcome, gate, return_value, run>>

\* lines 396-426: one dependency is looked up in task_results; after the last
\* one the prompt is built
ReadDependency ==
    /\ \E i \in DOMAIN futures :
        /\ futures[i].state = "context"
        /\ LET f == futures[i]
               parts == ContextStep(f.context_parts, f.task.dependencies[f.k],
                                    task_results, tasks)
               last == f.k = Len(f.task.dependencies)
           IN  futures' = [futures EXCEPT
                   ![i].k = f.k + 1,
                   ![i].context_parts = IF last THEN <<>> ELSE parts,
                   ![i].prompt = IF last THEN FullPrompt(f.task, parts) ELSE <<>>,
                   ![i].state = IF last THEN "agent" ELSE "context"]
    /\ UNCHANGED <<tasks, pc, retry_count, completed_tasks, task_results,
                   remaining_tasks, execution_order, ready_tasks, max_workers,
                   finished_snapshot, done_order, reflection_prompt,
                   evaluator_calls, verdicts, summary_table, outcome, starts,
                   early_order, gate, return_value, run>>

\* AgentReturns whose thread stores the result in task_results itself
AgentReturnsWritesResult ==
    /\ \E i \in DOMAIN futures :
        /\ futures[i].state = "agent"
        /\ futures' = [futures EXCEPT
               ![i].state = "returned",
               ![i].prompt = <<>>,
               ![i].value = AgentResult(futures[i].task, retry_count)]
        /\ task_results' = DictSet(task_results, futures[i].task.task_id,
                                   AgentResult(futures[i].task, retry_count))
        /\ done_order' = Notify(i)
        /\ early_order' = NotifyEarly(i)
    /\ UNCHANGED <<tasks, pc, retry_count, completed_tasks,
                   remaining_tasks, execution_order, ready_tasks, max_workers,
                   finished_snapshot, reflection_prompt, evaluator_calls,
                   verdicts, summary_table, outcome, starts, gate,
                   return_value, run>>

\* lines 429-442: the agent returns
AgentReturns ==
    /\ \E i \in DOMAIN futures :
        /\ futures[i].state = "agent"
        /\ futures' = [futures EXCEPT
               ![i].state = "returned",
               ![i].prompt = <<>>,
               ![i].value = AgentResult(futures[i].task, retry_count)]
        /\ done_order' = Notify(i)
        /\ early_order' = NotifyEarly(i)
    /\ UNCHANGED <<tasks, pc, retry_count, completed_tasks, task_results,
                   remaining_tasks, execution_order, ready_tasks, max_workers,
                   finished_snapshot, reflection_prompt, evaluator_calls,
                   verdicts, summary_table, outcome, starts, gate,
                   return_value, run>>

\* lines 429-434: the agent raises
AgentRaises ==
    /\ \E i \in DOMAIN futures :
        /\ futures[i].state = "agent"
        /\ futures' = [futures EXCEPT
               ![i].state = "raised",
               ![i].prompt = <<>>,
               ![i].value = AgentException(futures[i].task, retry_count)]
        /\ done_order' = Notify(i)
        /\ early_order' = NotifyEarly(i)
    /\ UNCHANGED <<tasks, pc, retry_count, completed_tasks, task_results,
                   remaining_tasks, execution_order, ready_tasks, max_workers,
                   finished_snapshot, reflection_prompt, evaluator_calls,
                   verdicts, summary_table, outcome, starts, gate,
                   return_value, run>>

---------------------------------------------------------------------------
(* Recording the outcome of a call *)

\* ValueError of list.remove
RemoveError(task, attempt) ==
    Text("exception", task.task_id, attempt, "list.remove(x): x not in list")

\* as_completed yields future i next: first the futures that had ended when
\* it was entered, in no particular order, then the others in the order they
\* ended
YieldsNext(i) ==
    IF finished_snapshot # {}
    THEN i \in finished_snapshot
    ELSE Len(done_order) > 0 /\ i = Head(done_order)

\* PoolExcept that lets the exception of the call leave the loop
PoolExceptReraise(task, e, completed, results, order) ==
    /\ completed_tasks' = completed
    /\ task_results' = results
    /\ execution_order' = order
    /\ remaining_tasks' = remaining_tasks
    /\ outcome' = "exception"

\* lines 266-273: the except branch of the pool loop, entered with exception e
PoolExcept(task, e, completed, results, order) ==
    /\ completed_tasks' = DictSet(completed, task.task_id, "FAILED")
    /\ task_results' = DictSet(results, task.task_id, ErrorText(e))
    /\ execution_order' = Append(order, task)
    /\ IF FirstIndex(remaining_tasks, task) # 0
       THEN /\ remaining_tasks' = ListRemove(remaining_tasks, task)
            /\ outcome' = outcome
       ELSE /\ remaining_tasks' = remaining_tasks
            /\ outcome' = "exception"

\* the loop over as_completed ends when it is entered without a future
LoopExhaustedAfterFirst(i) == TRUE

\* line 255: as_completed has yielded every future once future i is recorded
LoopExhausted(i) ==
    \A j \in DOMAIN futures : j # i => futures[j].state = "recorded"

\* lines 255-273: one iteration of the loop over as_completed
RecordFuture ==
    /\ pc = "collect"
    /\ \E i \in DOMAIN futures :
        /\ YieldsNext(i)
        /\ LET task == futures[i].task
               id == task.task_id
           IN  /\ IF futures[i].state = "raised"
                  THEN PoolExcept(task, futures[i].value, completed_tasks,
                                  task_results, execution_order)
                  ELSE IF FirstIndex(remaining_tasks, task) # 0
                  THEN /\ task_results' = DictSet(task_results, id, futures[i].value)
                       /\ completed_tasks' = DictSet(completed_tasks, id, "COMPLETED")
                       /\ execution_order' = Append(execution_order, task)
                       /\ remaining_tasks' = ListRemove(remaining_tasks, task)
                       /\ outcome' = outcome
                  ELSE PoolExcept(task, RemoveError(task, retry_count),
                                  DictSet(completed_tasks, id, "COMPLETED"),
                                  DictSet(task_results, id, futures[i].value),
                                  Append(execution_order, task))
               /\ finished_snapshot' = finished_snapshot \ {i}
               /\ early_order' = SelectSeq(early_order, LAMBDA j : j # i)
               /\ done_order' = IF finished_snapshot # {} THEN done_order
                                ELSE Tail(done_order)
               /\ futures' = [futures EXCEPT ![i] = Future(task, "recorded")]
               /\ pc' = IF outcome' = "exception" THEN "returned"
                        ELSE IF LoopExhausted(i) THEN "while_head"
                        ELSE "collect"
    /\ UNCHANGED <<tasks, retry_count, ready_tasks, max_workers,
                   reflection_prompt, evaluator_calls, verdicts,
                   summary_table, starts, gate, return_value, run>>

\* lines 219-278: exactly one ready task; it is listed and removed before it runs
DispatchSingle ==
    /\ pc = "while_head"
    /\ Len(remaining_tasks) > 0
    /\ LET ready == ReadyTasks(remaining_tasks, completed_tasks)
       IN  /\ Len(ready) = 1
           /\ ready_tasks' = ready
           /\ execution_order' = Append(execution_order, ready[1])
           /\ remaining_tasks' = ListRemove(remaining_tasks, ready[1])
           /\ futures' = << Future(ready[1], "queued") >>
    /\ done_order' = <<>>
    /\ pc' = "single"
    /\ early_order' = <<>>
    /\ UNCHANGED <<tasks, retry_count, completed_tasks, task_results,
                   max_workers, finished_snapshot, reflection_prompt,
                   evaluator_calls, verdicts, summary_table, outcome, starts,
                   gate, return_value, run>>

\* RecordSingle that gives up a call that is still with its agent
RecordSingleTimeout ==
    /\ pc = "single"
    /\ futures[1].state \in {"agent", "returned", "raised"}
    /\ LET task == futures[1].task
           id == task.task_id
       IN  /\ IF futures[1].state = "returned"
              THEN /\ task_results' = DictSet(task_results, id, futures[1].value)
                   /\ completed_tasks' = DictSet(completed_tasks, id, "COMPLETED")
              ELSE IF futures[1].state = "raised"
              THEN /\ completed_tasks' = DictSet(completed_tasks, id, "FAILED")
                   /\ task_results' =
                          DictSet(task_results, id, ErrorText(futures[1].value))
              ELSE /\ completed_tasks' = DictSet(completed_tasks, id, "TIMEOUT")
                   /\ task_results' =
                          DictSet(task_results, id,
                                  Text("error", id, retry_count, "timed out"))
           /\ futures' = << Future(task, "recorded") >>
    /\ pc' = "while_head"
    /\ UNCHANGED <<tasks, retry_count, remaining_tasks, execution_order,
                   ready_tasks, max_workers, finished_snapshot, done_order,
                   reflection_prompt, evaluator_calls, verdicts,
                   summary_table, outcome, starts, early_order, gate,
                   return_value, run>>

\* lines 280-294: the call of the single-task branch ended
RecordSingle ==
    /\ pc = "single"
    /\ futures[1].state \in {"returned", "raised"}
    /\ LET task == futures[1].task
           id == task.task_id
       IN  /\ IF futures[1].state = "returned"
              THEN /\ task_results' = DictSet(task_results, id, futures[1].value)
                   /\ completed_tasks' = DictSet(completed_tasks, id, "COMPLETED")
              ELSE /\ completed_tasks' = DictSet(completed_tasks, id, "FAILED")
                   /\ task_results' =
                          DictSet(task_results, id, ErrorText(futures[1].value))
           /\ futures' = << Future(task, "recorded") >>
    /\ pc' = "while_head"
    /\ UNCHANGED <<tasks, retry_count, remaining_tasks, execution_order,
                   ready_tasks, max_workers, finished_snapshot, done_order,
                   reflection_prompt, evaluator_calls, verdicts,
                   summary_table, outcome, starts, early_order, gate,
                   return_value, run>>

---------------------------------------------------------------------------
(* Reflection gate and final summary *)

\* _should_run_reflection that is satisfied with one quality task
ShouldRunReflectionAtLeastOne(all_tasks) ==
    Cardinality({i \in DOMAIN all_tasks :
                    all_tasks[i].agent \in
                        {"researcher_agent", "python_agent", "text2sql_agent"}}) >= 1

\* lines 444-452
ShouldRunReflection(all_tasks) ==
    Cardinality({i \in DOMAIN all_tasks :
                    all_tasks[i].agent \in
                        {"researcher_agent", "python_agent", "text2sql_agent"}}) >= 2

\* lines 470-476
ResultsSummary(results, order) ==
    [i \in DOMAIN order |->
        [task_id |-> order[i].task_id, agent |-> order[i].agent,
         result |-> DictGet(results, order[i].task_id,
                            Text("no_result", <<>>, 0, "No result"))]]

\* Verdict that allows one retry too many
VerdictOffByOne(reflection_result, attempt) ==
    IF Contains(PROCEED, Upper(reflection_result)) THEN "proceed"
    ELSE IF Contains(RETRY, Upper(reflection_result)) /\ attempt <= max_retries
    THEN "retry"
    ELSE "accept_with_warning"

\* Verdict that tests RETRY before PROCEED
VerdictRetryFirst(reflection_result, attempt) ==
    IF Contains(RETRY, Upper(reflection_result)) /\ attempt < max_retries
    THEN "retry"
    ELSE IF Contains(PROCEED, Upper(reflection_result)) THEN "proceed"
    ELSE "accept_with_warning"

\* Verdict that approves only the bare marker
VerdictProceedExact(reflection_result, attempt) ==
    IF Upper(reflection_result) = PROCEED THEN "proceed"
    ELSE IF Contains(RETRY, Upper(reflection_result)) /\ attempt < max_retries
    THEN "retry"
    ELSE "accept_with_warning"

\* Verdict that restarts on every text without PROCEED while attempts remain
VerdictUnclearRetries(reflection_result, attempt) ==
    IF Contains(PROCEED, Upper(reflection_result)) THEN "proceed"
    ELSE IF attempt < max_retries THEN "retry"
    ELSE "accept_with_warning"

\* Verdict that looks for the markers as they are written
VerdictCaseSensitive(reflection_result, attempt) ==
    IF Contains(PROCEED, reflection_result) THEN "proceed"
    ELSE IF Contains(RETRY, reflection_result) /\ attempt < max_retries
    THEN "retry"
    ELSE "accept_with_warning"

\* lines 301-325: what the gate does with the evaluator's text
Verdict(reflection_result, attempt) ==
    IF Contains(PROCEED, Upper(reflection_result)) THEN "proceed"
    ELSE IF Contains(RETRY, Upper(reflection_result)) /\ attempt < max_retries
    THEN "retry"
    ELSE "accept_with_warning"

\* ExitWhile that starts the next attempt when a task of the attempt failed
ExitWhileRetriesOnFailure ==
    /\ pc = "while_head"
    /\ Len(remaining_tasks) = 0
    /\ IF /\ \E id \in DOMAIN completed_tasks : completed_tasks[id] = "FAILED"
          /\ retry_count < max_retries
       THEN /\ UNCHANGED <<reflection_prompt, evaluator_calls, gate>>
            /\ execution_order' = <<>>
            /\ retry_count' = retry_count + 1
            /\ pc' = "for_head"
       ELSE /\ UNCHANGED <<execution_order, retry_count>>
            /\ IF ShouldRunReflection(tasks)
               THEN /\ reflection_prompt' =
                           ResultsSummary(task_results, execution_order)
                    /\ evaluator_calls' = evaluator_calls + 1
                    /\ pc' = "reflection"
                    /\ gate' = gate
               ELSE /\ UNCHANGED <<reflection_prompt, evaluator_calls>>
                    /\ pc' = "summary"
                    /\ gate' = "skipped"
    /\ UNCHANGED <<tasks, completed_tasks, task_results,
                   remaining_tasks, ready_tasks, futures,
                   max_workers, finished_snapshot, done_order, verdicts,
                   summary_table, outcome, starts, early_order, return_value,
                   run>>

\* lines 219, 296-300, 326-328: all tasks are processed
ExitWhile ==
    /\ pc = "while_head"
    /\ Len(remaining_tasks) = 0
    /\ IF ShouldRunReflection(tasks)
       THEN /\ reflection_prompt' = ResultsSummary(task_results, execution_order)
            /\ evaluator_calls' = evaluator_calls + 1
            /\ pc' = "reflection"
            /\ gate' = gate
       ELSE /\ UNCHANGED <<reflection_prompt, evaluator_calls>>
            /\ pc' = "summary"
            /\ gate' = "skipped"
    /\ UNCHANGED <<tasks, retry_count, completed_tasks, task_results,
                   remaining_tasks, execution_order, ready_tasks, futures,
                   max_workers, finished_snapshot, done_order, verdicts,
                   summary_table, outcome, starts, early_order, return_value,
                   run>>

\* lines 485-487, 301-325: the evaluator returns a text
EvaluatorReturns ==
    /\ pc = "reflection"
    /\ \E text \in EvaluatorTexts :
        /\ verdicts' = Append(verdicts, text)
        /\ gate' = Verdict(text, retry_count)
        /\ IF Verdict(text, retry_count) = "retry"
           THEN /\ execution_order' = <<>>
                /\ retry_count' = retry_count + 1
                /\ pc' = "for_head"
           ELSE /\ UNCHANGED <<execution_order, retry_count>>
                /\ pc' = "summary"
    /\ UNCHANGED <<tasks, completed_tasks, task_results, remaining_tasks,
                   ready_tasks, futures, max_workers, finished_snapshot,
                   done_order, reflection_prompt, evaluator_calls,
                   summary_table, outcome, starts, early_order, return_value,
                   run>>

\* line 485: the evaluator raises; nothing in _run_reflection or in
\* execute_plan_direct catches it
EvaluatorRaises ==
    /\ pc = "reflection"
    /\ outcome' = "exception"
    /\ pc' = "returned"
    /\ UNCHANGED <<tasks, retry_count, completed_tasks, task_results,
                   remaining_tasks, execution_order, ready_tasks, futures,
                   max_workers, finished_snapshot, done_order,
                   reflection_prompt, evaluator_calls, verdicts,
                   summary_table, starts, early_order, gate, return_value,
                   run>>

\* lines 342-354
SummaryRows(order, completed) ==
    [i \in DOMAIN order |->
        [task_id |-> order[i].task_id, agent |-> order[i].agent,
         status |-> DictGet(completed, order[i].task_id, "UNKNOWN")]]

\* FinalSummary that takes each task off execution_order as it prints its row
FinalSummaryDraining ==
    /\ pc = "summary"
    /\ summary_table' = SummaryRows(execution_order, completed_tasks)
    /\ execution_order' = <<>>
    /\ outcome' = "complete"
    /\ pc' = "returned"
    /\ return_value' = "None"
    /\ UNCHANGED <<tasks, retry_count, completed_tasks, task_results,
                   remaining_tasks, ready_tasks, futures, max_workers,
                   finished_snapshot, done_order, reflection_prompt,
                   evaluator_calls, verdicts, starts, early_order, gate, run>>

\* lines 330-356
FinalSummary ==
    /\ pc = "summary"
    /\ summary_table' = SummaryRows(execution_order, completed_tasks)
    /\ outcome' = "complete"
    /\ pc' = "returned"
    /\ return_value' = "None"
    /\ UNCHANGED <<tasks, retry_count, completed_tasks, task_results,
                   remaining_tasks, execution_order, ready_tasks, futures,
                   max_workers, finished_snapshot, done_order,
                   reflection_prompt, evaluator_calls, verdicts, starts,
                   early_order, gate, run>>

---------------------------------------------------------------------------

Next ==
    \/ ForHead
    \/ StructuralFailure
    \/ OpenPool
    \/ Submit
    \/ AsCompleted
    \/ PoolStart
    \/ SingleStart
    \/ ReadDependency
    \/ AgentReturns
    \/ AgentRaises
    \/ RecordFuture
    \/ DispatchSingle
    \/ RecordSingle
    \/ ExitWhile
    \/ EvaluatorReturns
    \/ EvaluatorRaises
    \/ FinalSummary

Spec == Init /\ [][Next]_vars

\* every call that was made returns or raises, and the threads keep running
FairSpec == Spec /\ WF_vars(Next)

---------------------------------------------------------------------------
(* Application.run: the interactive loop around execute_plan *)

\* no call of execute_plan_direct is under way
NoFrame ==
    /\ tasks = <<>>
    /\ pc = "not called"
    /\ retry_count = 0
    /\ completed_tasks = EmptyDict
    /\ task_results = EmptyDict
    /\ remaining_tasks = <<>>
    /\ execution_order = <<>>
    /\ ready_tasks = <<>>
    /\ futures = <<>>
    /\ max_workers = 0
    /\ finished_snapshot = {}
    /\ done_order = <<>>
    /\ reflection_prompt = <<>>
    /\ evaluator_calls = 0
    /\ verdicts = <<>>
    /\ summary_table = <<>>
    /\ outcome = "running"
    /\ starts = [t \in {} |-> 0]
    /\ early_order = <<>>
    /\ gate = "none"
    /\ return_value = "not returned"

\* state before the while loop of run (after line 534)
RunInit ==
    /\ NoFrame
    /\ run = [pc |-> "ask", requests |-> 0, user_query |-> <<>>,
              planned_tasks |-> [kind |-> "None", tasks |-> <<>>],
              event |-> "started"]

\* lines 489-491, 195-197: execute_plan enters execute_plan_direct
EnterExecutePlan(planned) ==
    /\ tasks' = planned
    /\ pc' = "for_head"
    /\ retry_count' = 0
    /\ completed_tasks' = EmptyDict
    /\ task_results' = EmptyDict
    /\ remaining_tasks' = <<>>
    /\ execution_order' = <<>>
    /\ ready_tasks' = <<>>
    /\ futures' = <<>>
    /\ max_workers' = 0
    /\ finished_snapshot' = {}
    /\ done_order' = <<>>
    /\ reflection_prompt' = <<>>
    /\ evaluator_calls' = 0
    /\ verdicts' = <<>>
    /\ summary_table' = <<>>
    /\ outcome' = "running"
    /\ starts' = [t \in Range(planned) |-> 0]
    /\ early_order' = <<>>
    /\ gate' = "none"
    /\ return_value' = "not returned"

\* the call of execute_plan is over and its local variables are gone
LeaveExecutePlan ==
    /\ tasks' = <<>>
    /\ pc' = "not called"
    /\ retry_count' = 0
    /\ completed_tasks' = EmptyDict
    /\ task_results' = EmptyDict
    /\ remaining_tasks' = <<>>
    /\ execution_order' = <<>>
    /\ ready_tasks' = <<>>
    /\ futures' = <<>>
    /\ max_workers' = 0
    /\ finished_snapshot' = {}
    /\ done_order' = <<>>
    /\ reflection_prompt' = <<>>
    /\ evaluator_calls' = 0
    /\ verdicts' = <<>>
    /\ summary_table' = <<>>
    /\ outcome' = "running"
    /\ starts' = [t \in {} |-> 0]
    /\ early_order' = <<>>
    /\ gate' = "none"
    /\ return_value' = "not returned"

\* lines 538-547: Prompt.ask returns what the user typed; requests counts the
\* inputs other than the quit words, up to MaxRequests
Ask ==
    /\ run.pc = "ask"
    /\ \E input \in Inputs :
        IF Lower(input) \in QuitWords
        THEN run' = [run EXCEPT !.pc = "ended", !.user_query = input,
                                !.event = "goodbye"]
        ELSE /\ run.requests < MaxRequests
             /\ IF Len(Strip(input)) = 0
                THEN run' = [run EXCEPT !.pc = "ask", !.user_query = input,
                                        !.requests = @ + 1,
                                        !.event = "blank"]
                ELSE run' = [run EXCEPT !.pc = "analyze", !.user_query = input,
                                        !.requests = @ + 1,
                                        !.event = "request"]
    /\ UNCHANGED engine_vars

\* lines 610-612: KeyboardInterrupt or EOFError inside the try block
Interrupted ==
    /\ run.pc \in {"ask", "analyze", "retrieve", "planner", "execute"}
    /\ run.pc = "execute" => pc # "returned"
    /\ run' = [run EXCEPT !.pc = "ended", !.event = "interrupted"]
    /\ LeaveExecutePlan

\* lines 549-559: analyze_and_store_if_valuable returns or raises
MemoryAnalysis ==
    /\ run.pc = "analyze"
    /\ \E result \in {"stored", "not_stored", "memory_analysis_failed"} :
        run' = [run EXCEPT !.pc = "retrieve", !.event = result]
    /\ UNCHANGED engine_vars

\* lines 561-582: retrieve_memories returns a list or raises
MemoryRetrieval ==
    /\ run.pc = "retrieve"
    /\ \/ \E relevant_memories \in Memories :
            IF Len(relevant_memories) > 0
            THEN run' = [run EXCEPT
                     !.pc = "planner",
                     !.user_query = [question |-> run.user_query,
                                     memories |-> relevant_memories],
                     !.event = "memories_found"]
            ELSE run' = [run EXCEPT !.pc = "planner", !.event = "no_memories"]
       \/ run' = [run EXCEPT !.pc = "planner",
                             !.event = "memory_retrieval_failed"]
    /\ UNCHANGED engine_vars

\* lines 584-608, 163-191: run_planner returns None, an empty list or a task
\* list, or raises before its try block; a non-empty list goes to execute_plan
RunPlanner ==
    /\ run.pc = "planner"
    /\ \/ \E planned_tasks \in PlannerResults :
            IF planned_tasks.kind = "tasks" /\ Len(planned_tasks.tasks) > 0
            THEN /\ run' = [run EXCEPT !.pc = "execute",
                                       !.planned_tasks = planned_tasks,
                                       !.event = "plan_generated"]
                 /\ EnterExecutePlan(planned_tasks.tasks)
            ELSE /\ run' = [run EXCEPT !.pc = "ask",
                                       !.planned_tasks = planned_tasks,
                                       !.event = "no_plan"]
                 /\ UNCHANGED engine_vars
       \/ /\ run' = [run EXCEPT !.pc = "ask",
                                !.event = "unexpected_error: planner"]
          /\ UNCHANGED engine_vars

\* line 608: execute_plan returned
ExecutePlanReturns ==
    /\ run.pc = "execute"
    /\ pc = "returned"
    /\ outcome \in {"complete", "structural_failure"}
    /\ run' = [run EXCEPT !.pc = "ask", !.event = "executed"]
    /\ LeaveExecutePlan

\* ExecutePlanRaises without the handler of lines 613-616
ExecutePlanRaisesUncaught ==
    /\ run.pc = "execute"
    /\ pc = "returned"
    /\ outcome = "exception"
    /\ run' = [run EXCEPT !.pc = "ended",
                          !.event = "unexpected_error: execute_plan"]
    /\ LeaveExecutePlan

\* lines 608, 613-616: an exception left execute_plan
ExecutePlanRaises ==
    /\ run.pc = "execute"
    /\ pc = "returned"
    /\ outcome = "exception"
    /\ run' = [run EXCEPT !.pc = "ask",
                          !.event = "unexpected_error: execute_plan"]
    /\ LeaveExecutePlan

RunNext ==
    \/ Ask
    \/ Interrupted
    \/ MemoryAnalysis
    \/ MemoryRetrieval
    \/ RunPlanner
    \/ ExecutePlanReturns
    \/ ExecutePlanRaises
    \/ Next

RunSpec == RunInit /\ [][RunNext]_vars

---------------------------------------------------------------------------
(* Vocabulary of the properties *)

TaskIds == {tasks[i].task_id : i \in DOMAIN tasks}

UniqueIds == \A i, j \in DOMAIN tasks : tasks[i].task_id = tasks[j].task_id => i = j

\* every dependency names a task of the batch
ClosedDependencies ==
    \A i \in DOMAIN tasks : Range(tasks[i].dependencies) \subseteq TaskIds

DependsOn(x, y) ==
    \E i \in DOMAIN tasks : tasks[i].task_id = x /\ y \in Range(tasks[i].dependencies)

\* x depends on y through at most n dependency edges
RECURSIVE Reaches(_, _, _)
Reaches(x, y, n) ==
    /\ n > 0
    /\ \/ DependsOn(x, y)
       \/ \E z \in TaskIds : DependsOn(x, z) /\ Reaches(z, y, n - 1)

Acyclic == \A x \in TaskIds : ~Reaches(x, x, Len(tasks))

\* the batches of section 3 of the specification
WellFormedPlan == UniqueIds /\ ClosedDependencies /\ Acyclic

\* a batch with a cycle, a self-dependency or a dangling dependency
DefectivePlan == UniqueIds /\ ~(ClosedDependencies /\ Acyclic)

Terminal == {"COMPLETED", "FAILED"}

\* the calls of _execute_single_task that have started
Started == {i \in DOMAIN futures :
                futures[i].state \in {"context", "agent", "returned", "raised"}}

Occurrences(s, x) == Cardinality({i \in DOMAIN s : s[i] = x})

\* every task has one terminal status and is listed once
AllTasksTerminal ==
    /\ \A i \in DOMAIN tasks :
          /\ tasks[i].task_id \in DOMAIN completed_tasks
          /\ completed_tasks[tasks[i].task_id] \in Terminal
          /\ Occurrences(execution_order, tasks[i]) = 1
    /\ DOMAIN completed_tasks = TaskIds

---------------------------------------------------------------------------
(* Claims *)

Last(s) == s[Len(s)]

\* the number of tasks whose agent bears on the quality of the batch
QualityTasks ==
    Cardinality({i \in DOMAIN tasks :
                    tasks[i].agent \in
                        {"researcher_agent", "python_agent", "text2sql_agent"}})

\* the evaluator returns a text in this step
EvaluatorAnswers == pc = "reflection" /\ Len(verdicts') = Len(verdicts) + 1

\* C1: a call of _execute_single_task for task t has started only if every id
\* in t's dependencies has a terminal status in completed_tasks, recorded in
\* the same attempt.
C1_DispatchAfterDependencies ==
    \A i \in Started :
        \A dep \in Range(futures[i].task.dependencies) :
            /\ dep \in DOMAIN completed_tasks
            /\ completed_tasks[dep] \in Terminal
            /\ dep \in DOMAIN task_results
            /\ task_results[dep].attempt = retry_count

\* C1 witness: the call of a task with two dependencies is under way
C1_Witness ==
    \E i \in DOMAIN futures :
        /\ futures[i].state = "agent"
        /\ Len(futures[i].task.dependencies) = 2

\* C2: for a batch with unique ids and an acyclic dependency relation over its
\* own ids, when every call returns or raises, execute_plan_direct ends with
\* every task holding exactly one terminal status and listed exactly once.
C2_Terminates ==
    WellFormedPlan => <>(pc = "returned" /\ AllTasksTerminal)

\* C2 witness: a well-formed batch has ended after a retry
C2_Witness ==
    /\ WellFormedPlan
    /\ pc = "returned"
    /\ retry_count > 0
    /\ AllTasksTerminal
    /\ \E id \in TaskIds : completed_tasks[id] = "FAILED"

\* C3: for a batch with a cycle, a self-dependency or a dangling dependency,
\* execute_plan_direct reaches the empty ready set with tasks remaining,
\* reports the structural failure and returns; it never reaches the
\* reflection gate or the final summary.
C3_StructuralFailure ==
    DefectivePlan =>
        /\ <>(pc = "returned" /\ outcome = "structural_failure"
              /\ Len(remaining_tasks) > 0)
        /\ [](pc \notin {"reflection", "summary"} /\ outcome # "complete")

\* C3 witness: the failure is reported after an independent task was run
C3_Witness ==
    /\ DefectivePlan
    /\ outcome = "structural_failure"
    /\ pc = "returned"
    /\ Len(execution_order) > 0

\* C4: at most 3 calls are under way at any time, and a ready task that waits
\* in the pool's queue is eventually started.
C4_BoundedConcurrency ==
    /\ [](Cardinality(InFlight) <= 3)
    /\ \A i \in 1..MaxFan :
          (i \in DOMAIN futures /\ futures[i].state = "queued")
              ~> (i \in DOMAIN futures /\ futures[i].state # "queued")

\* C4 witness: three calls are under way while a fourth task waits
C4_Witness ==
    /\ Cardinality(InFlight) = 3
    /\ \E i \in DOMAIN futures : futures[i].state = "queued"

\* C5: a call that raised is recorded as FAILED with the error detail as its
\* result text; a dependency's recorded text, error texts included, is what a
\* dependent's prompt carries for it; and a well-formed batch ends with every
\* task run once per attempt, whatever failed.
C5_FailureIsolation ==
    /\ [][\A i \in DOMAIN futures :
            (futures[i].state = "raised" /\ i \in DOMAIN futures'
             /\ futures'[i].state = "recorded")
            => LET id == futures[i].task.task_id
               IN  /\ completed_tasks'[id] = "FAILED"
                   /\ task_results'[id] = ErrorText(futures[i].value)
                   /\ task_results'[id].detail = futures[i].value.detail]_vars
    /\ [](\A i \in DOMAIN futures :
            futures[i].state = "agent" =>
                \A dep \in Range(futures[i].task.dependencies) :
                    \E n \in DOMAIN futures[i].prompt :
                        /\ futures[i].prompt[n].kind = "block"
                        /\ futures[i].prompt[n].id = Upper(dep)
                        /\ futures[i].prompt[n].results = task_results[dep]
                        /\ completed_tasks[dep] = "FAILED"
                               => futures[i].prompt[n].results.kind = "error")
    /\ []((WellFormedPlan /\ pc = "returned") =>
            /\ AllTasksTerminal
            /\ \A i \in DOMAIN tasks : starts[tasks[i]] = retry_count + 1)

\* C5 witness: a dependent runs with the error text of a failed dependency
\* while the other dependency succeeded
C5_Witness ==
    \E i \in DOMAIN futures :
        /\ futures[i].state = "agent"
        /\ \E n, m \in DOMAIN futures[i].prompt :
              /\ futures[i].prompt[n].results.kind = "error"
              /\ futures[i].prompt[m].results.kind = "result"

\* C6: a task whose agent is not in Config.agent_configs aborts the batch: it
\* gets no per-task status, no dependent of it is started and the batch does
\* not complete.
C6_UnknownAgentAborts ==
    \A i \in DOMAIN tasks :
        tasks[i].agent \notin agent_configs =>
            /\ tasks[i].task_id \notin DOMAIN completed_tasks
            /\ \A j \in DOMAIN tasks :
                  tasks[i].task_id \in Range(tasks[j].dependencies)
                      => starts[tasks[j]] = 0
            /\ outcome # "complete"

IsProceedText(text) == Contains(PROCEED, Upper(text))

IsRetryText(text) == Contains(RETRY, Upper(text)) /\ ~IsProceedText(text)

\* C7: there are never more than 3 attempts; when the evaluator answered RETRY
\* in every attempt, execute_plan_direct ends after exactly 3 attempts with the
\* final summary of the third attempt.
C7_AttemptsBounded ==
    /\ retry_count + 1 <= 3
    /\ evaluator_calls <= 3
    /\ \A i \in DOMAIN tasks : starts[tasks[i]] <= 3
    /\ (/\ pc = "returned"
        /\ evaluator_calls = Len(verdicts)
        /\ Len(verdicts) > 0
        /\ \A n \in DOMAIN verdicts : IsRetryText(verdicts[n]))
       => /\ retry_count + 1 = 3
          /\ Len(verdicts) = 3
          /\ outcome = "complete"
          /\ \A i \in DOMAIN tasks : starts[tasks[i]] = 3
          /\ Len(summary_table) = Len(tasks)
          /\ \A n \in DOMAIN summary_table :
                /\ summary_table[n].status = completed_tasks[summary_table[n].task_id]
                /\ task_results[summary_table[n].task_id].attempt = 2

\* C7 witness: three RETRY answers, then the summary
C7_Witness ==
    /\ pc = "returned"
    /\ outcome = "complete"
    /\ Len(verdicts) = 3
    /\ \A n \in DOMAIN verdicts : IsRetryText(verdicts[n])

\* C8: RETRY in attempt 1 and PROCEED in attempt 2: there are exactly 2
\* attempts, every task was started exactly twice, the evaluator was called
\* exactly twice, and nothing more runs.
C8_RetryThenProceed ==
    (/\ Len(verdicts) >= 2
     /\ IsRetryText(verdicts[1])
     /\ IsProceedText(verdicts[2]))
    => /\ Len(verdicts) = 2
       /\ evaluator_calls = 2
       /\ retry_count + 1 = 2
       /\ \A i \in DOMAIN tasks : starts[tasks[i]] = 2
       /\ pc \in {"summary", "returned"}
       /\ outcome \in {"running", "complete"}

\* C8 witness: the batch ended after RETRY, then PROCEED
C8_Witness ==
    /\ pc = "returned"
    /\ Len(verdicts) = 2
    /\ IsRetryText(verdicts[1])
    /\ IsProceedText(verdicts[2])

\* C9: an attempt starts with empty task_results and completed_tasks, and
\* every text a context build, the reflection summary or the final summary
\* reads was written in the current attempt.
C9_FreshStatePerAttempt ==
    /\ (pc = "while_head" /\ remaining_tasks = tasks /\ execution_order = <<>>)
        => (completed_tasks = EmptyDict /\ task_results = EmptyDict)
    /\ pc # "for_head" =>
        /\ DOMAIN completed_tasks = DOMAIN task_results
        /\ \A id \in DOMAIN task_results : task_results[id].attempt = retry_count
    /\ \A i \in DOMAIN futures :
          \A n \in DOMAIN futures[i].prompt :
              futures[i].prompt[n].kind \in {"block", "plain"}
                  => futures[i].prompt[n].results.attempt = retry_count
    /\ pc = "reflection" =>
          \A n \in DOMAIN reflection_prompt :
              /\ reflection_prompt[n].result.kind \in {"result", "error"}
              /\ reflection_prompt[n].result.attempt = retry_count
    /\ outcome = "complete" =>
          \A n \in DOMAIN summary_table :
              /\ summary_table[n].status # "UNKNOWN"
              /\ task_results[summary_table[n].task_id].attempt = retry_count

\* C9 witness: a context build of a retry
C9_Witness ==
    /\ retry_count > 0
    /\ \E i \in DOMAIN futures :
          /\ futures[i].state = "agent"
          /\ Len(futures[i].task.dependencies) > 0

\* C10: when the evaluator call raises, execute_plan_direct ends normally,
\* with the final summary of the current attempt.
C10_EvaluatorFailureAbsorbed ==
    (pc = "returned" /\ evaluator_calls > Len(verdicts))
        => (outcome = "complete" /\ Len(summary_table) = Len(tasks))

\* C11: whenever the evaluator's text of an attempt contains RETRY and the
\* attempt index is below max_retries, the gate signals a restart and a new
\* attempt is started.
C11_RetryRestarts ==
    [][(EvaluatorAnswers
        /\ Contains(RETRY, Last(verdicts'))
        /\ retry_count < max_retries)
       => (/\ gate' = "retry"
           /\ retry_count' = retry_count + 1
           /\ pc' = "for_head")]_vars

C14_EvaluatorPolicy ==
    /\ evaluator_calls \in {retry_count, retry_count + 1}
    /\ evaluator_calls > 0 => QualityTasks >= 2
    /\ pc = "reflection" => evaluator_calls = retry_count + 1
    /\ QualityTasks < 2 =>
          /\ evaluator_calls = 0
          /\ verdicts = <<>>
          /\ retry_count = 0
          /\ gate \in {"none", "skipped"}
          /\ \A i \in DOMAIN tasks : starts[tasks[i]] <= 1
          /\ pc \in {"summary", "returned"} /\ outcome # "structural_failure"
               => gate = "skipped"
          /\ outcome = "complete" =>
                /\ Len(summary_table) = Len(tasks)
                /\ \A i \in DOMAIN tasks : starts[tasks[i]] = 1

\* C14 witness: a batch with one quality task ended with a failed task and
\* without a verdict
C14_Witness ==
    /\ QualityTasks = 1
    /\ pc = "returned"
    /\ outcome = "complete"
    /\ gate = "skipped"
    /\ \E id \in DOMAIN completed_tasks : completed_tasks[id] = "FAILED"

\* C15: once the ready set is empty while tasks remain, no executor and no
\* evaluator is invoked again and no further attempt is started, however many
\* attempts remain.
C15_StructuralFailureFatal ==
    /\ [](outcome = "structural_failure"
          => (/\ pc = "returned"
              /\ InFlight = {}
              /\ retry_count < max_retries
              /\ evaluator_calls = 0))
    /\ [][outcome = "structural_failure"
          => (/\ starts' = starts
              /\ evaluator_calls' = evaluator_calls
              /\ retry_count' = retry_count
              /\ futures' = futures)]_vars

\* C15 witness: a batch with two quality tasks stopped in its first attempt
\* with tasks that were never started
C15_Witness ==
    /\ outcome = "structural_failure"
    /\ QualityTasks >= 2
    /\ retry_count = 0
    /\ \E i, j \in DOMAIN tasks : starts[tasks[i]] = 1 /\ starts[tasks[j]] = 0

\* C16: what execute_plan_direct hands to its caller carries an overall
\* verdict that is Failure if and only if the final status of at least one
\* task in the last attempt is not COMPLETED, and Success otherwise.
C16_OverallVerdict ==
    (pc = "returned" /\ outcome = "complete")
        => return_value =
               IF \E i \in DOMAIN tasks :
                      DictGet(completed_tasks, tasks[i].task_id, "UNKNOWN")
                          # "COMPLETED"
               THEN "Failure" ELSE "Success"

\* C17: whenever execute_plan_direct finishes, after an accepted attempt,
\* exhausted retries, an inconclusive verdict or a structural failure, the
\* final summary lists every task of the batch exactly once with its status.
C17_SummaryEnumeratesTasks ==
    (pc = "returned" /\ outcome \in {"complete", "structural_failure"})
        => \A i \in DOMAIN tasks :
              /\ Cardinality({n \in DOMAIN summary_table :
                     summary_table[n].task_id = tasks[i].task_id}) = 1
              /\ \A n \in DOMAIN summary_table :
                    summary_table[n].task_id = tasks[i].task_id
                        => summary_table[n].status =
                               DictGet(completed_tasks, tasks[i].task_id, "UNKNOWN")

\* C18: no exception of _execute_single_task leaves execute_plan_direct: in
\* the pool loop and in the single-task branch it becomes the status FAILED
\* and the result text of its task, and the while loop goes on.
C18_ExecutorFailureAbsorbed ==
    /\ [](outcome = "exception" => evaluator_calls > Len(verdicts))
    /\ [][\A i \in DOMAIN futures :
             (/\ futures[i].state = "raised"
              /\ i \in DOMAIN futures'
              /\ futures'[i].state = "recorded")
             => (/\ completed_tasks' =
                        DictSet(completed_tasks, futures[i].task.task_id, "FAILED")
                 /\ task_results' =
                        DictSet(task_results, futures[i].task.task_id,
                                Text("error", futures[i].task.task_id,
                                     retry_count, futures[i].value.detail))
                 /\ outcome' = "running"
                 /\ pc' \in {"while_head", "collect"}
                 /\ Occurrences(execution_order', futures[i].task) = 1
                 /\ Occurrences(remaining_tasks', futures[i].task) = 0)]_vars

\* C18 witness: one call raised in a pool and one in the single-task branch,
\* and the summary was printed
C18_Witness ==
    /\ tasks = PlanDiamond
    /\ outcome = "complete"
    /\ completed_tasks[<<"a">>] = "FAILED"
    /\ completed_tasks[<<"c">>] = "FAILED"
    /\ task_results[<<"c">>].kind = "error"

\* C19: an attempt that follows a retry request runs every task of the batch
\* exactly once, also the tasks that were COMPLETED in the attempt before.
C19_RetryRunsEveryTask ==
    \A i \in DOMAIN tasks :
        /\ starts[tasks[i]] \in {retry_count, retry_count + 1}
        /\ pc = "for_head" => starts[tasks[i]] = retry_count
        /\ pc \in {"reflection", "summary"} => starts[tasks[i]] = retry_count + 1
        /\ outcome = "complete" => starts[tasks[i]] = retry_count + 1
        /\ (pc \notin {"for_head", "returned"}
            /\ tasks[i].task_id \in DOMAIN completed_tasks)
               => starts[tasks[i]] = retry_count + 1

\* C19 witness: in the second attempt the agent runs a task whose result of
\* the first attempt the evaluator had seen
C19_Witness ==
    /\ retry_count = 1
    /\ \E n \in DOMAIN reflection_prompt :
          /\ reflection_prompt[n].result.kind = "result"
          /\ reflection_prompt[n].result.attempt = 0
          /\ \E i \in DOMAIN futures :
                /\ futures[i].task.task_id = reflection_prompt[n].task_id
                /\ futures[i].state = "agent"
                /\ starts[futures[i].task] = 2

\* C20: the final summary lists the tasks of the last attempt in the order in
\* which they finished: every task comes after all of its dependencies, and
\* the tasks of one ready set come in the order in which their calls ended.
C20_SummaryInFinishOrder ==
    /\ [](outcome = "complete" =>
            /\ summary_table = SummaryRows(execution_order, completed_tasks)
            /\ \A m, n \in DOMAIN summary_table :
                  summary_table[m].task_id \in Range(execution_order[n].dependencies)
                      => m < n)
    /\ [][\A i \in DOMAIN futures :
             (/\ pc = "collect"
              /\ futures[i].state \in {"returned", "raised"}
              /\ i \in DOMAIN futures'
              /\ futures'[i].state = "recorded")
             => (/\ execution_order' = Append(execution_order, futures[i].task)
                 /\ i = Head(early_order \o done_order))]_vars

\* every future of the current ready set is recorded, with status and result
RoundRecorded ==
    \A i \in DOMAIN futures :
        /\ futures[i].state = "recorded"
        /\ futures[i].task.task_id \in DOMAIN completed_tasks
        /\ completed_tasks[futures[i].task.task_id] \in Terminal
        /\ futures[i].task.task_id \in DOMAIN task_results

\* C21: the next ready set is computed only after every task of the current
\* ready set has a terminal status and has status and result in
\* completed_tasks and task_results; while only part of a ready set has ended
\* no task outside it is dispatched.
C21_BarrierBetweenReadySets ==
    /\ [](pc = "while_head" /\ Len(execution_order) > 0 => RoundRecorded)
    /\ [][ready_tasks' # ready_tasks
          => (pc = "while_head" /\ (Len(execution_order) > 0 => RoundRecorded))]_vars
    /\ [][\A t \in Range(tasks) :
             starts'[t] > starts[t]
                 => (/\ t \in Range(ready_tasks)
                     /\ ready_tasks' = ready_tasks
                     /\ \E i \in DOMAIN futures : futures[i].task = t)]_vars

\* C21 witness: one task of a ready set is recorded, another is still with its
\* agent, and a task whose dependencies are all recorded waits for the round
C21_Witness ==
    /\ pc = "collect"
    /\ \E i \in DOMAIN futures : futures[i].state = "agent"
    /\ \E i \in DOMAIN futures : futures[i].state = "recorded"
    /\ \E n \in DOMAIN remaining_tasks :
          /\ remaining_tasks[n] \notin Range(ready_tasks)
          /\ Range(remaining_tasks[n].dependencies) \subseteq DOMAIN completed_tasks

\* the tasks that were not dispatched in this attempt and whose dependencies
\* all have a terminal status
ReadyNow ==
    {t \in Range(tasks) :
        /\ starts[t] = retry_count
        /\ \A dep \in Range(t.dependencies) :
              dep \in DOMAIN completed_tasks /\ completed_tasks[dep] \in Terminal}

\* C22: in every round of an attempt the ready set is exactly the set of the
\* tasks not yet dispatched whose dependencies all have a terminal status;
\* a task without dependencies is in the ready set of the first round.
C22_ReadySetExact ==
    [][pc = "while_head" =>
         IF pc' \in {"submit", "single"}
         THEN /\ Range(ready_tasks') = ReadyNow
              /\ Len(ready_tasks') = Cardinality(ReadyNow)
              /\ {futures'[i].task : i \in DOMAIN futures'} = ReadyNow
              /\ remaining_tasks = tasks =>
                    \A t \in Range(tasks) :
                        Len(t.dependencies) = 0 => t \in Range(ready_tasks')
         ELSE ReadyNow = {}]_vars

\* C22 witness: the first round of a retry leaves out the task whose
\* dependencies have not run
C22_Witness ==
    /\ tasks = PlanDiamond
    /\ retry_count = 1
    /\ pc = "submit"
    /\ remaining_tasks = tasks
    /\ Len(ready_tasks) = 2

\* a step of _execute_single_task: a call starts, reads a dependency, or ends
WorkerStep ==
    \E i \in DOMAIN futures :
        /\ futures[i].state \in {"queued", "context", "agent"}
        /\ i \in DOMAIN futures'
        /\ futures'[i] # futures[i]
        /\ futures'[i].state \in {"context", "agent", "returned", "raised"}

\* C23: no two writes to task_results, completed_tasks, remaining_tasks or
\* execution_order are concurrent in any interleaving of the worker threads of
\* a ready set: every write is a step of the controlling thread, which
\* records one future at a time, and no step of a call writes.
C23_WritesSerialized ==
    [][(\/ task_results' # task_results
        \/ completed_tasks' # completed_tasks
        \/ remaining_tasks' # remaining_tasks
        \/ execution_order' # execution_order)
       => (/\ ~WorkerStep
           /\ pc \in {"for_head", "while_head", "collect", "single", "reflection"}
           /\ pc = "collect" =>
                 Cardinality({i \in DOMAIN futures :
                                 /\ futures[i].state \in {"returned", "raised"}
                                 /\ futures'[i].state = "recorded"}) = 1
           /\ \A i \in DOMAIN futures :
                 (futures[i].state \in {"queued", "context", "agent"}
                  /\ i \in DOMAIN futures')
                     => futures'[i] = futures[i])]_vars

\* C23 witness: a result of the round is stored while two calls of the same
\* round are with their agents
C23_Witness ==
    /\ pc = "collect"
    /\ Cardinality({i \in DOMAIN futures : futures[i].state = "agent"}) >= 2
    /\ \E i \in DOMAIN futures :
          /\ futures[i].state = "recorded"
          /\ futures[i].task.task_id \in DOMAIN task_results

\* the context build of future i looks up a dependency in this step
ReadsDependency(i) ==
    /\ futures[i].state = "context"
    /\ i \in DOMAIN futures'
    /\ futures'[i] # futures[i]

\* C24 as stated: task_results is read, by a context build or by
\* _run_reflection, only when no write of the current ready set is
\* outstanding, that is after the other tasks of the ready set were recorded.
C24_ReadsAfterAllWrites ==
    /\ [][\A i \in DOMAIN futures :
             ReadsDependency(i)
                 => \A j \in DOMAIN futures :
                        j # i => futures[j].state = "recorded"]_vars
    /\ [](pc = "reflection"
          => \A i \in DOMAIN futures : futures[i].state = "recorded")

\* C24: a context build reads task_results only at the ids of the declared
\* dependencies of its task; each of them was written in an earlier ready set
\* of the current attempt and is not written while a call that reads it runs.
\* Writes for other tasks of the current ready set may be outstanding.
\* _run_reflection reads after every task of the last ready set was recorded.
C24_ReadsOfSettledKeys ==
    /\ [][\A i \in DOMAIN futures :
             ReadsDependency(i)
                 => LET dep == futures[i].task.dependencies[futures[i].k]
                    IN  /\ dep \in DOMAIN task_results
                        /\ task_results[dep].attempt = retry_count
                        /\ \A j \in DOMAIN futures : futures[j].task.task_id # dep
                        /\ task_results' = task_results]_vars
    /\ [][\A i \in DOMAIN futures :
             futures[i].state \in {"queued", "context"}
                 => \A dep \in Range(futures[i].task.dependencies) :
                        /\ dep \in DOMAIN task_results
                        /\ dep \in DOMAIN task_results'
                        /\ task_results'[dep] = task_results[dep]]_vars
    /\ [](pc = "reflection"
          => (/\ Len(remaining_tasks) = 0
              /\ \A i \in DOMAIN futures : futures[i].state = "recorded"
              /\ reflection_prompt = ResultsSummary(task_results, execution_order)))

\* C24 witness: a context build is under way while the result of another call
\* of the same ready set waits to be stored
C24_Witness ==
    /\ pc = "collect"
    /\ \E i, j \in DOMAIN futures :
          /\ futures[i].state = "context"
          /\ futures[j].state = "returned"
          /\ futures[j].task.task_id \notin DOMAIN task_results

\* the task of the batch with this id
TaskOf(id) == CHOOSE t \in Range(tasks) : t.task_id = id

\* the parts of a prompt that carry a result
ResultParts(prompt) == SelectSeq(prompt, LAMBDA seg : seg.results # NoText)

\* C25 as stated: the input of a task with dependencies holds one block per
\* dependency, in the declared order, each with the id, the agent, the
\* description and the result text of the dependency from the current
\* attempt, and no result of another task.
C25_ContextBlocksAsStated ==
    \A i \in DOMAIN futures :
        (futures[i].state = "agent" /\ Len(futures[i].task.dependencies) > 0)
            => ResultParts(futures[i].prompt) =
                   [n \in DOMAIN futures[i].task.dependencies |->
                       LET dep == futures[i].task.dependencies[n]
                       IN  Segment("block", dep, TaskOf(dep).agent,
                                   TaskOf(dep).description, task_results[dep])]

\* C25: the input of a task with dependencies holds one block per dependency,
\* in the declared order, each with the id of the dependency in upper case,
\* its agent, its description and its result text from the current attempt,
\* and no result of another task.
C25_ContextBlocks ==
    \A i \in DOMAIN futures :
        (futures[i].state = "agent" /\ Len(futures[i].task.dependencies) > 0)
            => /\ ResultParts(futures[i].prompt) =
                   [n \in DOMAIN futures[i].task.dependencies |->
                       LET dep == futures[i].task.dependencies[n]
                       IN  Segment("block", Upper(dep), TaskOf(dep).agent,
                                   TaskOf(dep).description, task_results[dep])]
               /\ \A n \in DOMAIN futures[i].prompt :
                     futures[i].prompt[n].results # NoText
                         => futures[i].prompt[n].results.attempt = retry_count

\* C25 witness: the agent of a task with two dependencies runs with the error
\* text of the first and the result of the second
C25_Witness ==
    \E i \in DOMAIN futures :
        /\ futures[i].state = "agent"
        /\ Len(futures[i].task.dependencies) = 2
        /\ task_results[futures[i].task.dependencies[1]].kind = "error"
        /\ task_results[futures[i].task.dependencies[2]].kind = "result"

\* C26 as stated: for every task without dependencies, whatever its agent,
\* the input of the agent is the description of the task and nothing else.
C26_PlainDescriptionAsStated ==
    \A i \in DOMAIN futures :
        (futures[i].state = "agent" /\ Len(futures[i].task.dependencies) = 0)
            => futures[i].prompt =
                   << Segment("description", <<>>, "",
                              futures[i].task.description, NoText) >>

\* C26: for every task without dependencies whose agent is not report_agent,
\* the input of the agent is the description of the task and nothing else;
\* for report_agent the input is the original user request followed by the
\* description.
C26_PlainDescription ==
    \A i \in DOMAIN futures :
        (futures[i].state = "agent" /\ Len(futures[i].task.dependencies) = 0)
            => futures[i].prompt =
                   IF futures[i].task.agent = "report_agent"
                   THEN << Segment("original_request", <<>>, "", UserQuery, NoText),
                           Segment("description", <<>>, "",
                                   futures[i].task.description, NoText) >>
                   ELSE << Segment("description", <<>>, "",
                                   futures[i].task.description, NoText) >>

\* C26 witness: in one pool a researcher_agent and a python_agent run tasks
\* without dependencies
C26_Witness ==
    /\ \E i \in DOMAIN futures :
          /\ futures[i].state = "agent"
          /\ futures[i].task.agent = "researcher_agent"
          /\ Len(futures[i].task.dependencies) = 0
    /\ \E i \in DOMAIN futures :
          /\ futures[i].state = "agent"
          /\ futures[i].task.agent = "python_agent"

\* C27: producing the final summary a second time from the same execution
\* order and status map gives the same rows in the same order, and producing
\* it changes neither the status map, the result map nor the execution order.
C27_AggregationIdempotent ==
    /\ [][pc = "summary"
          => (/\ completed_tasks' = completed_tasks
              /\ task_results' = task_results
              /\ execution_order' = execution_order
              /\ summary_table' = SummaryRows(execution_order', completed_tasks')
              /\ Len(summary_table') = Len(tasks))]_vars
    /\ [](outcome = "complete"
          => SummaryRows(execution_order, completed_tasks) = summary_table)

\* C27 witness: a summary with a FAILED row and a COMPLETED row was printed
C27_Witness ==
    /\ pc = "returned"
    /\ outcome = "complete"
    /\ \E m, n \in DOMAIN summary_table :
          /\ summary_table[m].status = "FAILED"
          /\ summary_table[n].status = "COMPLETED"

\* C28: within one attempt _execute_single_task is started at most once for a
\* task id, in the pool and in the single-task branch, and a task leaves
\* remaining_tasks exactly once: when its terminal status is recorded (pool)
\* or when it is dispatched (single-task branch).
C28_DispatchedAtMostOnce ==
    /\ [](\A t \in Range(tasks) :
            /\ starts[t] <= retry_count + 1
            /\ Occurrences(remaining_tasks, t) <= 1
            /\ Cardinality({i \in DOMAIN futures :
                               /\ futures[i].task.task_id = t.task_id
                               /\ futures[i].state # "recorded"}) <= 1
            /\ (pc # "for_head" /\ Occurrences(remaining_tasks, t) = 0
                /\ outcome = "running")
                  => Occurrences(execution_order, t) = 1)
    /\ [][\A t \in Range(tasks) :
             starts'[t] # starts[t]
                 => (starts[t] = retry_count /\ starts'[t] = retry_count + 1)]_vars
    /\ [][\A t \in Range(tasks) :
             Occurrences(remaining_tasks', t) < Occurrences(remaining_tasks, t)
                 => \/ /\ pc = "collect"
                       /\ \E i \in DOMAIN futures :
                             /\ futures[i].task = t
                             /\ futures[i].state \in {"returned", "raised"}
                             /\ futures'[i].state = "recorded"
                       /\ t.task_id \notin DOMAIN completed_tasks
                       /\ completed_tasks'[t.task_id] \in Terminal
                    \/ /\ pc = "while_head"
                       /\ pc' = "single"
                       /\ futures' = << Future(t, "queued") >>
                       /\ starts[t] = retry_count]_vars
    /\ [][\A t \in Range(tasks) :
             Occurrences(remaining_tasks', t) > Occurrences(remaining_tasks, t)
                 => pc = "for_head"]_vars

\* C28 witness: after a pool recorded two tasks, the third has left
\* remaining_tasks in the single-task branch and its call has not started
C28_Witness ==
    /\ pc = "single"
    /\ Len(remaining_tasks) = 0
    /\ Len(execution_order) = 3
    /\ futures[1].state = "queued"
    /\ starts[futures[1].task] = retry_count

\* the ids of the tasks whose dependencies can all be met in at most n rounds
RECURSIVE RunnableIds(_)
RunnableIds(n) ==
    IF n = 0 THEN {}
    ELSE {tasks[i].task_id :
             i \in {j \in DOMAIN tasks :
                       Range(tasks[j].dependencies) \subseteq RunnableIds(n - 1)}}

\* the tasks that do not depend, directly or not, on a cycle or on an id that
\* is not in the batch
Runnable == RunnableIds(Len(tasks))

\* C29: for a batch with a cycle or a dangling dependency, every task that
\* does not depend on the defective part, directly or not, has been run when
\* the structural failure is detected, no other task has, and
\* execute_plan_direct returns without a final summary.
C29_PartialExecutionNoSummary ==
    /\ [](outcome = "structural_failure"
          => (/\ Runnable # TaskIds
              /\ pc = "returned"
              /\ summary_table = <<>>
              /\ \A i \in DOMAIN tasks :
                    IF tasks[i].task_id \in Runnable
                    THEN /\ starts[tasks[i]] = 1
                         /\ tasks[i].task_id \in DOMAIN task_results
                         /\ DictGet(completed_tasks, tasks[i].task_id, "UNKNOWN")
                                \in Terminal
                         /\ Occurrences(execution_order, tasks[i]) = 1
                    ELSE /\ starts[tasks[i]] = 0
                         /\ tasks[i].task_id \notin DOMAIN completed_tasks
                         /\ Occurrences(remaining_tasks, tasks[i]) = 1))
    /\ [][outcome' = "structural_failure"
          => (summary_table' = <<>> /\ execution_order' = execution_order)]_vars

\* C29 witness: the independent task of a batch with a dangling dependency
\* ran and failed, and the batch ended without a summary
C29_Witness ==
    /\ tasks = PlanDangling
    /\ outcome = "structural_failure"
    /\ completed_tasks[<<"a">>] = "FAILED"
    /\ Len(execution_order) = 1
    /\ summary_table = <<>>

\* C30: a status in completed_tasks is COMPLETED or FAILED; no row of the
\* final summary shows TIMEOUT or UNKNOWN; and while an executor call has not
\* returned, its task has no status and the attempt does not get past the
\* round of that call.
C30_OnlyCompletedOrFailed ==
    /\ [](\A id \in DOMAIN completed_tasks :
            completed_tasks[id] \in {"COMPLETED", "FAILED"})
    /\ [](\A n \in DOMAIN summary_table :
            summary_table[n].status \in {"COMPLETED", "FAILED"})
    /\ [](pc = "summary" =>
            \A n \in DOMAIN execution_order :
                execution_order[n].task_id \in DOMAIN completed_tasks)
    /\ [](\A i \in DOMAIN futures :
            futures[i].state \in {"context", "agent"}
                => (/\ pc \in {"submit", "as_completed", "collect", "single"}
                    /\ outcome = "running"
                    /\ futures[i].task.task_id \notin DOMAIN completed_tasks
                    /\ Len(ready_tasks) = Len(futures)))
    /\ [][\A i \in DOMAIN futures :
             (futures[i].state = "agent" /\ i \in DOMAIN futures'
              /\ futures'[i] # futures[i])
                 => (/\ futures'[i].state \in {"returned", "raised"}
                     /\ completed_tasks' = completed_tasks
                     /\ pc' = pc)]_vars

\* C30 witness: every other call of a pool of three was recorded and the
\* round waits for the last call, which is with its agent
C30_Witness ==
    /\ pc = "collect"
    /\ Len(futures) >= 3
    /\ \E i \in DOMAIN futures :
          /\ futures[i].state = "agent"
          /\ \A j \in DOMAIN futures : j # i => futures[j].state = "recorded"

\* C31: failed tasks alone never cause a retry. An attempt after the first
\* starts only after the evaluator's text of the attempt before was classified
\* as RETRY; a batch with failed tasks whose evaluator is skipped or answers
\* PROCEED makes exactly one attempt; and the evaluator is invoked, with the
\* error texts as results, also when tasks of the attempt have failed.
C31_FailuresDoNotRetry ==
    /\ [][retry_count' # retry_count
          => (/\ EvaluatorAnswers
              /\ retry_count' = retry_count + 1
              /\ IsRetryText(Last(verdicts'))
              /\ Len(verdicts') = retry_count')]_vars
    /\ [](/\ Len(verdicts) >= retry_count
          /\ \A n \in 1..retry_count : IsRetryText(verdicts[n]))
    /\ [](\/ gate = "skipped"
          \/ (Len(verdicts) >= 1 /\ IsProceedText(verdicts[1]))
          => (/\ retry_count = 0
              /\ \A i \in DOMAIN tasks : starts[tasks[i]] = 1))
    /\ [][(pc = "while_head" /\ Len(remaining_tasks) = 0 /\ QualityTasks >= 2)
          => (/\ pc' = "reflection"
              /\ evaluator_calls' = evaluator_calls + 1
              /\ Len(reflection_prompt') = Len(tasks)
              /\ \A n \in DOMAIN reflection_prompt' :
                    LET id == reflection_prompt'[n].task_id
                    IN  /\ reflection_prompt'[n].result = task_results[id]
                        /\ completed_tasks[id] = "FAILED"
                              <=> reflection_prompt'[n].result.kind = "error")]_vars

\* C31 witness: a batch with a failed task ended after one attempt that the
\* evaluator, shown the error text, approved
C31_Witness ==
    /\ pc = "returned"
    /\ retry_count = 0
    /\ gate = "proceed"
    /\ \E id \in DOMAIN completed_tasks : completed_tasks[id] = "FAILED"
    /\ \E n \in DOMAIN reflection_prompt : reflection_prompt[n].result.kind = "error"

\* word, written in upper case, occurs in text in some letter case
ContainsAnyCase(word, text) ==
    \E n \in 0..Len(text) :
        /\ n + Len(word) <= Len(text)
        /\ \A k \in 1..Len(word) : UpperChar(text[n + k]) = word[k]

ReadySetIds == {ready_tasks[n].task_id : n \in DOMAIN ready_tasks}

\* C32: while the calls of a ready set run, no call reads an entry of
\* task_results whose key is the id of a task of the same ready set: every
\* key a context build reads was written in an earlier round of the same
\* attempt, so no entry is written while a call that reads it is pending.
C32_NoReadOfSiblingEntries ==
    /\ [](pc \in {"submit", "as_completed", "collect", "single"}
          => \A n \in DOMAIN ready_tasks :
                /\ Range(ready_tasks[n].dependencies) \cap ReadySetIds = {}
                /\ \A dep \in Range(ready_tasks[n].dependencies) :
                      /\ dep \in DOMAIN task_results
                      /\ task_results[dep].attempt = retry_count
                      /\ task_results[dep].of = dep)
    /\ [][\A i \in DOMAIN futures :
             ReadsDependency(i)
                 => (/\ futures[i].task.dependencies[futures[i].k] \notin ReadySetIds
                     /\ futures[i].task.dependencies[futures[i].k]
                            \in DOMAIN task_results
                     /\ futures[i].task \in Range(ready_tasks))]_vars
    /\ [][\A id \in ReadySetIds :
             (id \notin DOMAIN task_results /\ id \in DOMAIN task_results')
                 => \A i \in DOMAIN futures :
                       futures[i].state \in {"queued", "context"}
                           => id \notin Range(futures[i].task.dependencies)]_vars

\* C32 witness: the result of one call of a pool has been stored while
\* another call of the pool is about to read its dependency
C32_Witness ==
    /\ pc = "collect"
    /\ \E i, j \in DOMAIN futures :
          /\ futures[i].state = "context"
          /\ futures[i].task.dependencies[futures[i].k] \in DOMAIN task_results
          /\ futures[j].state = "recorded"
          /\ futures[j].task.task_id \in DOMAIN task_results


\* what the loop prints when a stage of one request raised
FailureEvents ==
    {"memory_analysis_failed", "memory_retrieval_failed",
     "unexpected_error: planner", "unexpected_error: execute_plan"}

\* C34: in Application.run no exception raised while one request is handled
\* ends the loop: a failed memory analysis or retrieval goes on with the same
\* request, a failure of the planner, of execute_plan or of the evaluator inside
\* it leads back to the prompt; the loop ends only when the input, put in lower
\* case, is quit, exit or bye, or on KeyboardInterrupt/EOF; and execute_plan is
\* entered only with the non-empty task list the planner returned.
C34_FailuresKeepLoopAlive ==
    [][ /\ (run.pc # "ended" /\ run'.pc = "ended")
            => \/ run'.event = "interrupted"
               \/ /\ run.pc = "ask"
                  /\ Lower(run'.user_query) \in QuitWords
        /\ (run' # run /\ run'.event \in FailureEvents)
            => run'.pc \in {"retrieve", "planner", "ask"}
        /\ (run' # run /\ run.pc \in {"planner", "execute"}
                /\ run'.event \in FailureEvents)
            => run'.pc = "ask"
        /\ (run.pc = "execute" /\ outcome = "exception" /\ run' # run)
            => /\ run'.pc = "ask"
               /\ run'.event = "unexpected_error: execute_plan"
        /\ (run.pc # "execute" /\ run'.pc = "execute")
            => /\ run.pc = "planner"
               /\ run'.planned_tasks.kind = "tasks"
               /\ Len(run'.planned_tasks.tasks) > 0
               /\ tasks' = run'.planned_tasks.tasks
               /\ pc' = "for_head"
      ]_vars

\* the evaluator raised inside execute_plan while the first request was
\* handled; the loop printed the error and is back at the prompt
C34_Witness ==
    /\ run.pc = "ask"
    /\ run.requests = 1
    /\ run.event = "unexpected_error: execute_plan"
    /\ run.planned_tasks.tasks = PlanDiamond
    /\ NoFrame

====
